---- MODULE Spec2Model ----
(***************************************************************************)
(* Provider selection, the clipboard base contract, the provider registry  *)
(* and the input provider enumeration of kivy.                             *)
(*                                                                         *)
(*   src/kivy/core/clipboard/__init__.py   ClipboardBase and the module    *)
(*                                         level code that selects the     *)
(*                                         Clipboard and CutBuffer         *)
(*   src/kivy/input/providers/__init__.py  the guarded imports of the      *)
(*                                         input providers                 *)
(*   src/kivy/tests/test_provider_registry.py  the conformance tests of    *)
(*                                         the provider registry           *)
(*   kivy.core (core_select_lib, get_provider_modules,                     *)
(*   make_provider_tuple) is imported by that file but is not part of the  *)
(*   sources at hand: the selector is modelled from section 4.3 of the     *)
(*   specification, the resolver from section 4.1.                         *)
(***************************************************************************)
EXTENDS Integers, Sequences, FiniteSets, TLC

VARIABLES
    platform,       \* kivy.utils.platform, fixed for the process
    USE_SDL3,       \* kivy.setupconfig.USE_SDL3, fixed for the process
    allow,          \* configured allow-list of the clipboard category, or NoAllow
    outcome,        \* per provider: has its resolution been tried, and how it ended
    pc,             \* position in the module level code of kivy.core.clipboard
    _clipboards,    \* the candidate list built for the clipboard selection
    _cutbuffers,    \* the candidate list built for the cut buffer selection
    Clipboard,      \* reference to the selected clipboard instance, or None
    CutBuffer,      \* reference to the cut buffer instance, or None
    sel,            \* the selector's activation record
    objs,           \* the heap: every backend instance constructed so far
    log,            \* what has been logged
    last,           \* the last copy / paste call and what it did
    inp,            \* the load of kivy.input.providers: how far it is, what it did
    reg             \* the provider registry and the mapping a caller was handed

vars == <<platform, USE_SDL3, allow, outcome, pc, _clipboards, _cutbuffers,
          Clipboard, CutBuffer, sel, objs, log, last, inp, reg>>

---------------------------------------------------------------------------
(* Bounds of the model *)

\* longest allow-list enumerated
MaxAllow == 2
\* longest text handed to copy
MaxLen == 2

---------------------------------------------------------------------------
(* Values *)

\* the absent reference (Python's None) in Clipboard, CutBuffer and results
None == 0

Platforms == {"android", "macosx", "win", "linux", "other"}

\* the clipboard providers the module level code names, in registry order
ProviderNames ==
    <<"android", "nspaste", "winctypes", "xclip", "xsel",
      "dbusklipper", "gtk3", "sdl3", "dummy">>

NameSet == {ProviderNames[i] : i \in DOMAIN ProviderNames}

\* the no-op backend; it has no native dependency, so its resolution succeeds
Dummy == "dummy"

\* get_provider_modules('clipboard'): short name -> module identifier
all_providers ==
    [n \in NameSet |->
        CASE n = "android"     -> "clipboard_android"
          [] n = "nspaste"     -> "clipboard_nspaste"
          [] n = "winctypes"   -> "clipboard_winctypes"
          [] n = "xclip"       -> "clipboard_xclip"
          [] n = "xsel"        -> "clipboard_xsel"
          [] n = "dbusklipper" -> "clipboard_dbusklipper"
          [] n = "gtk3"        -> "clipboard_gtk3"
          [] n = "sdl3"        -> "clipboard_sdl3"
          [] OTHER             -> "clipboard_dummy"]

\* make_provider_tuple(name, all_providers, classname)
make_provider_tuple(name, modules, classname) ==
    [name |-> name, module |-> modules[name], cls |-> classname]

Last(s) == s[Len(s)]

Names(cands) == [i \in DOMAIN cands |-> cands[i].name]

Range(s) == {s[i] : i \in DOMAIN s}

---------------------------------------------------------------------------
(* The candidate lists of kivy.core.clipboard *)

PlatformClipboards ==
    CASE platform = "android" ->
            <<make_provider_tuple("android", all_providers, "ClipboardAndroid")>>
      [] platform = "macosx" ->
            <<make_provider_tuple("nspaste", all_providers, "ClipboardNSPaste")>>
      [] platform = "win" ->
            <<make_provider_tuple("winctypes", all_providers, "ClipboardWindows")>>
      [] platform = "linux" ->
            <<make_provider_tuple("xclip", all_providers, "ClipboardXclip"),
              make_provider_tuple("xsel", all_providers, "ClipboardXsel"),
              make_provider_tuple("dbusklipper", all_providers, "ClipboardDbusKlipper"),
              make_provider_tuple("gtk3", all_providers, "ClipboardGtk3")>>
      [] OTHER -> << >>

SDL3Clipboards ==
    IF USE_SDL3
    THEN <<make_provider_tuple("sdl3", all_providers, "ClipboardSDL3")>>
    ELSE << >>

\* a build of the list that forgets the trailing dummy
ClipboardCandidatesNoDummy ==
    PlatformClipboards \o SDL3Clipboards

ClipboardCandidates ==
    PlatformClipboards \o SDL3Clipboards
        \o <<make_provider_tuple("dummy", all_providers, "ClipboardDummy")>>

\* a build of the cut buffer list that appends the dummy as the clipboard list does
CutBufferCandidatesWithDummy ==
    <<make_provider_tuple("xclip", all_providers, "ClipboardXclip"),
      make_provider_tuple("xsel", all_providers, "ClipboardXsel"),
      make_provider_tuple("dummy", all_providers, "ClipboardDummy")>>

CutBufferCandidates ==
    <<make_provider_tuple("xclip", all_providers, "ClipboardXclip"),
      make_provider_tuple("xsel", all_providers, "ClipboardXsel")>>

\* the create_instance argument of a call that asks for every provider
\* instead of a single instance
create_instance_off == FALSE

\* the third argument of both core_select_lib calls
create_instance == TRUE

---------------------------------------------------------------------------
(* The configured allow-list *)

\* no allow-list configured for the category
NoAllow == [given |-> FALSE, names |-> << >>]

SeqsUpTo(S, n) == UNION {[1..k -> S] : k \in 0..n}

NoDuplicates(s) == \A i, j \in DOMAIN s : i # j => s[i] # s[j]

AllowLists ==
    {NoAllow} \cup
    {[given |-> TRUE, names |-> s] :
        s \in {t \in SeqsUpTo(NameSet, MaxAllow) : NoDuplicates(t)}}

\* the allow-list that applies to a category: only registry categories have
\* one, and "cutbuffer" is not a registry category
AllowFor(category) == IF category = "clipboard" THEN allow ELSE NoAllow

---------------------------------------------------------------------------
(* The selector (specification 4.3) and the resolver (4.1) *)

Idle ==
    [state |-> "idle", cat |-> "", cands |-> << >>, order |-> << >>,
     given |-> FALSE, force |-> TRUE, attempted |-> << >>, built |-> << >>,
     result |-> None, fellBack |-> FALSE]

RECURSIVE RestrictByCandidates(_, _)
\* the candidates named by the allow-list, kept in candidate order
RestrictByCandidates(cands, names) ==
    IF cands = << >> THEN << >>
    ELSE (IF cands[1].name \in Range(names) THEN <<cands[1]>> ELSE << >>)
            \o RestrictByCandidates(Tail(cands), names)

RECURSIVE Restrict(_, _)
\* the candidates named by the allow-list, in allow-list order
Restrict(cands, names) ==
    IF names = << >> THEN << >>
    ELSE SelectSeq(cands, LAMBDA c : c.name = names[1])
            \o Restrict(cands, Tail(names))

\* a registered no-op fallback: the dummy entry of the candidate list
HasFallback(cands) == \E i \in DOMAIN cands : cands[i].name = Dummy

Fallback(cands) == cands[CHOOSE i \in DOMAIN cands : cands[i].name = Dummy]

\* the activation record of select(category, candidates, allowlist, forceSingle)
core_select_lib(category, llist, forceSingle) ==
    LET a == AllowFor(category) IN
    [state |-> "running", cat |-> category, cands |-> llist,
     order |-> IF a.given THEN Restrict(llist, a.names) ELSE llist,
     given |-> a.given, force |-> forceSingle,
     attempted |-> << >>, built |-> << >>, result |-> None,
     fellBack |-> FALSE]

\* the resolutions of a provider that its environment still allows: the first
\* attempt decides, every later attempt repeats it
Resolutions(name) ==
    IF name = Dummy THEN {"ok"}
    ELSE IF outcome[name] = "untried" THEN {"ok", "fail"}
    ELSE {outcome[name]}

Unset == "unset"

\* a freshly constructed backend instance: no _clip_mime_type attribute yet
NewInstance(classname) ==
    [cls |-> classname, _clip_mime_type |-> Unset, _encoding |-> Unset]

\* the candidate the loop is at
Current == sel.order[Len(sel.attempted) + 1]

LoopDone ==
    \/ Len(sel.attempted) = Len(sel.order)
    \/ sel.force /\ sel.built # << >>

\* one turn of the loop: resolve the next candidate (import its module, take
\* its class, construct it); a failure is logged and the loop goes on
SelectTry ==
    /\ sel.state = "running"
    /\ ~LoopDone
    /\ \E r \in Resolutions(Current.name) :
        /\ outcome' = [outcome EXCEPT ![Current.name] = r]
        /\ IF r = "ok"
           THEN /\ objs' = Append(objs, NewInstance(Current.cls))
                /\ sel' = [sel EXCEPT !.attempted = Append(@, Current.name),
                                      !.built = Append(@, Len(objs) + 1)]
                /\ log' = log
           ELSE /\ objs' = objs
                /\ sel' = [sel EXCEPT !.attempted = Append(@, Current.name)]
                /\ log' = log \cup {[level |-> "warning", what |-> "ImportFailure",
                                     cat |-> sel.cat, name |-> Current.name]}
    /\ UNCHANGED <<inp, reg, platform, USE_SDL3, allow, pc, _clipboards, _cutbuffers,
                   Clipboard, CutBuffer, last>>

\* the end of the loop: the winner, else the fallback, else NoProviderAvailable
SelectFinish ==
    /\ sel.state = "running"
    /\ LoopDone
    /\ IF sel.built # << >>
       THEN /\ sel' = [sel EXCEPT !.state = "returned", !.result = sel.built[1]]
            /\ UNCHANGED <<objs, log>>
       ELSE IF HasFallback(sel.cands)
       THEN /\ objs' = Append(objs, NewInstance(Fallback(sel.cands).cls))
            /\ sel' = [sel EXCEPT !.state = "returned",
                                  !.result = Len(objs) + 1,
                                  !.fellBack = TRUE]
            /\ log' = log \cup {[level |-> "warning", what |-> "Fallback",
                                 cat |-> sel.cat, name |-> Dummy]}
       ELSE /\ sel' = [sel EXCEPT !.state = "raised"]
            /\ log' = log \cup {[level |-> "critical",
                                 what |-> "NoProviderAvailable",
                                 cat |-> sel.cat, name |-> ""]}
            /\ objs' = objs
    /\ UNCHANGED <<inp, reg, platform, USE_SDL3, allow, outcome, pc, _clipboards,
                   _cutbuffers, Clipboard, CutBuffer, last>>

---------------------------------------------------------------------------
(* Text, bytes and the two codecs of ClipboardBase *)

\* code points texts are made of: NUL, "A", e-acute (two bytes in UTF-8) and a
\* lone high surrogate (no codec encodes it)
Chars == {0, 65, 233, 55296}

Texts == SeqsUpTo(Chars, MaxLen)

\* Python values handed to copy or returned by get: None, str, bytes, or an
\* object of another type (v is empty when the object is falsy)
NoData == [kind |-> "none", v |-> << >>]
Str(t) == [kind |-> "str", v |-> t]
Bytes(b) == [kind |-> "bytes", v |-> b]
Other(b) == [kind |-> "other", v |-> b]

\* Python truthiness of data
Truthy(data) == data.kind # "none" /\ data.v # << >>

IsSurrogate(c) == c >= 55296 /\ c <= 57343
IsHighSurrogate(c) == c >= 55296 /\ c <= 56319
IsLowSurrogate(c) == c >= 56320 /\ c <= 57343

\* str.encode raises UnicodeEncodeError on a surrogate code point
CanEncode(t) == \A i \in DOMAIN t : ~IsSurrogate(t[i])

UTF8Char(c) ==
    IF c < 128 THEN <<c>>
    ELSE IF c < 2048 THEN <<192 + (c \div 64), 128 + (c % 64)>>
    ELSE IF c < 65536
    THEN <<224 + (c \div 4096), 128 + ((c \div 64) % 64), 128 + (c % 64)>>
    ELSE <<240 + (c \div 262144), 128 + ((c \div 4096) % 64),
           128 + ((c \div 64) % 64), 128 + (c % 64)>>

UTF16Unit(u) == <<u % 256, u \div 256>>

UTF16Char(c) ==
    IF c < 65536 THEN UTF16Unit(c)
    ELSE UTF16Unit(55296 + ((c - 65536) \div 1024))
            \o UTF16Unit(56320 + ((c - 65536) % 1024))

RECURSIVE Encode(_, _)
\* str.encode(encoding) of a text without surrogates
Encode(t, encoding) ==
    IF t = << >> THEN << >>
    ELSE (IF encoding = "utf-16-le" THEN UTF16Char(t[1]) ELSE UTF8Char(t[1]))
            \o Encode(Tail(t), encoding)

Drop(b, n) == SubSeq(b, n + 1, Len(b))

IsCont(b, i) == i <= Len(b) /\ b[i] >= 128 /\ b[i] <= 191

\* how many continuation bytes the lead byte announces (0: not a lead byte)
UTF8Need(b1) ==
    IF b1 >= 194 /\ b1 <= 223 THEN 1
    ELSE IF b1 >= 224 /\ b1 <= 239 THEN 2
    ELSE IF b1 >= 240 /\ b1 <= 244 THEN 3
    ELSE 0

\* the second byte's range is narrower after E0, ED, F0 and F4
UTF8SecondOk(b) ==
    /\ Len(b) >= 2
    /\ b[2] >= (IF b[1] = 224 THEN 160 ELSE IF b[1] = 240 THEN 144 ELSE 128)
    /\ b[2] <= (IF b[1] = 237 THEN 159 ELSE IF b[1] = 244 THEN 143 ELSE 191)

\* the valid continuation bytes that follow the lead byte, up to need
UTF8Have(b, need) ==
    IF ~UTF8SecondOk(b) THEN 0
    ELSE IF need = 1 \/ ~IsCont(b, 3) THEN 1
    ELSE IF need = 2 \/ ~IsCont(b, 4) THEN 2
    ELSE 3

UTF8Value(b, need) ==
    IF need = 1 THEN (b[1] - 192) * 64 + (b[2] - 128)
    ELSE IF need = 2
    THEN (b[1] - 224) * 4096 + (b[2] - 128) * 64 + (b[3] - 128)
    ELSE (b[1] - 240) * 262144 + (b[2] - 128) * 4096
            + (b[3] - 128) * 64 + (b[4] - 128)

RECURSIVE DecodeUTF8(_)
\* bytes.decode('utf-8', 'ignore'): an ill-formed sequence is dropped up to
\* the byte that breaks it, and decoding resumes there
DecodeUTF8(b) ==
    IF b = << >> THEN << >>
    ELSE IF b[1] < 128 THEN <<b[1]>> \o DecodeUTF8(Tail(b))
    ELSE LET need == UTF8Need(b[1])
             have == UTF8Have(b, need)
         IN  IF need = 0 THEN DecodeUTF8(Tail(b))
             ELSE IF have = need
             THEN <<UTF8Value(b, need)>> \o DecodeUTF8(Drop(b, need + 1))
             ELSE DecodeUTF8(Drop(b, have + 1))

RECURSIVE DecodeUTF16LE(_)
\* bytes.decode('utf-16-le', 'ignore'): an odd trailing byte, a lone surrogate
\* and a high surrogate cut off by the end of the data are dropped
DecodeUTF16LE(b) ==
    IF Len(b) < 2 THEN << >>
    ELSE LET u == b[1] + 256 * b[2] IN
         IF ~IsSurrogate(u) THEN <<u>> \o DecodeUTF16LE(Drop(b, 2))
         ELSE IF IsLowSurrogate(u) THEN DecodeUTF16LE(Drop(b, 2))
         ELSE IF Len(b) < 4 THEN << >>
         ELSE LET u2 == b[3] + 256 * b[4] IN
              IF IsLowSurrogate(u2)
              THEN <<65536 + (u - 55296) * 1024 + (u2 - 56320)>>
                      \o DecodeUTF16LE(Drop(b, 4))
              ELSE DecodeUTF16LE(Drop(b, 2))

Decode(b, encoding) ==
    IF encoding = "utf-16-le" THEN DecodeUTF16LE(b) ELSE DecodeUTF8(b)

\* data.replace(u'\x00', u'')
StripNulls(t) == SelectSeq(t, LAMBDA c : c # 0)

---------------------------------------------------------------------------
(* ClipboardBase *)

TextPlain == "text/plain"
TextPlainUTF8 == "text/plain;charset=utf-8"

\* what a backend's get_types() may return; the base class returns []
TypeSets == {{}, {TextPlain, TextPlainUTF8}}

\* byte strings a backend may hold that no copy of this model put there
SampleBytes ==
    {<<65>>, <<65, 0>>, <<0>>, <<195, 169>>, <<195>>, <<255, 65>>,
     <<0, 216>>, <<61, 216, 0, 222>>}

\* what a backend's get(mimetype) may return
\* texts a backend may return already decoded
SampleTexts == {<< >>, <<65>>, <<0>>, <<65, 0, 233>>, <<128512>>}

GetValues ==
    {NoData} \cup {Str(t) : t \in SampleTexts}
        \cup {Bytes(b) : b \in SampleBytes}

\* what a caller may hand to copy
CopyInputs ==
    {NoData, Bytes(<< >>), Other(<< >>), Other(<<5>>)}
        \cup {Str(t) : t \in Texts} \cup {Bytes(<<65, 0>>), Bytes(<<195, 169>>)}

NoPut == [called |-> FALSE, data |-> << >>, mime |-> ""]

NoCall ==
    [op |-> "none", obj |-> None, data |-> NoData, raised |-> FALSE,
     put |-> NoPut, types |-> {}, selfTypes |-> {}, asked |-> "",
     got |-> NoData, echo |-> FALSE, ret |-> NoData]

HasMimeType(o) == o._clip_mime_type # Unset

\* an _ensure_clipboard whose guard is inverted
_ensure_clipboard_inverted(o) ==
    IF ~HasMimeType(o) THEN o
    ELSE [o EXCEPT !._clip_mime_type = TextPlain, !._encoding = "utf-8"]

\* lines 47-63
_ensure_clipboard(o) ==
    IF HasMimeType(o) THEN o
    ELSE IF platform = "win"
    THEN [o EXCEPT !._clip_mime_type = TextPlainUTF8, !._encoding = "utf-16-le"]
    ELSE IF platform = "linux"
    THEN [o EXCEPT !._clip_mime_type = TextPlainUTF8, !._encoding = "utf-8"]
    ELSE [o EXCEPT !._clip_mime_type = TextPlain, !._encoding = "utf-8"]

\* a _copy that encodes with UTF-8 whatever the cached encoding is
_copy_utf8(o, data) ==
    LET self == _ensure_clipboard(o) IN
    IF data.kind = "bytes"
    THEN [self |-> self, raised |-> FALSE,
          put |-> [called |-> TRUE, data |-> data.v,
                   mime |-> self._clip_mime_type]]
    ELSE IF data.kind = "str" /\ CanEncode(data.v)
    THEN [self |-> self, raised |-> FALSE,
          put |-> [called |-> TRUE, data |-> Encode(data.v, "utf-8"),
                   mime |-> self._clip_mime_type]]
    ELSE [self |-> self, raised |-> TRUE, put |-> NoPut]

\* a _copy that puts under 'text/plain' whatever the instance has cached
_copy_plain_mime(o, data) ==
    LET self == _ensure_clipboard(o) IN
    IF data.kind = "bytes"
    THEN [self |-> self, raised |-> FALSE,
          put |-> [called |-> TRUE, data |-> data.v, mime |-> TextPlain]]
    ELSE IF data.kind = "str" /\ CanEncode(data.v)
    THEN [self |-> self, raised |-> FALSE,
          put |-> [called |-> TRUE, data |-> Encode(data.v, self._encoding),
                   mime |-> TextPlain]]
    ELSE [self |-> self, raised |-> TRUE, put |-> NoPut]

\* lines 83-87: the instance after the call, whether the call raised
\* (UnicodeEncodeError for a surrogate, AttributeError for data without
\* encode), and the put it made
_copy(o, data) ==
    LET self == _ensure_clipboard(o) IN
    IF data.kind = "bytes"
    THEN [self |-> self, raised |-> FALSE,
          put |-> [called |-> TRUE, data |-> data.v,
                   mime |-> self._clip_mime_type]]
    ELSE IF data.kind = "str" /\ CanEncode(data.v)
    THEN [self |-> self, raised |-> FALSE,
          put |-> [called |-> TRUE, data |-> Encode(data.v, self._encoding),
                   mime |-> self._clip_mime_type]]
    ELSE [self |-> self, raised |-> TRUE, put |-> NoPut]

\* a copy without the test of its argument
copy_unguarded(o, data) == _copy(o, data)

\* lines 65-73
copy(o, data) ==
    IF Truthy(data) THEN _copy(o, data)
    ELSE [self |-> o, raised |-> FALSE, put |-> NoPut]

\* lines 93-95: the MIME type asked for, from the types the call was given
mime_type(self, _clip_types) ==
    IF self._clip_mime_type \in _clip_types
    THEN self._clip_mime_type
    ELSE TextPlain

\* a _paste that returns what get returned when that is None
_paste_value_none(self, data) ==
    IF data.kind = "none" THEN NoData
    ELSE Str(StripNulls(IF data.kind = "bytes"
                        THEN Decode(data.v, self._encoding)
                        ELSE data.v))

\* a paste that returns the decoded text with its null characters
_paste_value_keep_nulls(self, data) ==
    IF data.kind # "none"
    THEN Str(IF data.kind = "bytes"
             THEN Decode(data.v, self._encoding)
             ELSE data.v)
    ELSE Str(<< >>)

\* lines 98-107: the value _paste returns for what get returned
_paste_value(self, data) ==
    IF data.kind # "none"
    THEN Str(StripNulls(IF data.kind = "bytes"
                        THEN Decode(data.v, self._encoding)
                        ELSE data.v))
    ELSE Str(<< >>)

\* the instances a caller can reach: Clipboard and CutBuffer
Instances == {Clipboard, CutBuffer} \ {None}

\* Clipboard.copy(data) or CutBuffer.copy(data)
Copy ==
    /\ pc = "done"
    /\ \E o \in Instances, data \in CopyInputs :
        LET r == copy(objs[o], data) IN
        /\ objs' = [objs EXCEPT ![o] = r.self]
        /\ last' = [NoCall EXCEPT !.op = "copy", !.obj = o, !.data = data,
                                  !.raised = r.raised, !.put = r.put]
    /\ UNCHANGED <<inp, reg, platform, USE_SDL3, allow, outcome, pc, _clipboards,
                   _cutbuffers, Clipboard, CutBuffer, sel, log>>

\* what get may return: any value, or the bytes the copy just before this
\* call put on the same instance
GetReturns(o) ==
    GetValues \cup
        (IF last.op = "copy" /\ last.obj = o /\ last.put.called
         THEN {Bytes(last.put.data)} ELSE {})

\* Clipboard.paste() or CutBuffer.paste(), lines 75-107; the types are those
\* of Clipboard (line 91), whatever instance the call is on
Paste ==
    /\ pc = "done"
    /\ \E o \in Instances, clipTypes \in TypeSets :
        LET self == _ensure_clipboard(objs[o])
            asked == mime_type(self, clipTypes)
        IN  \E ownTypes \in (IF o = Clipboard THEN {clipTypes} ELSE TypeSets),
               data \in GetReturns(o) :
                /\ objs' = [objs EXCEPT ![o] = self]
                /\ last' = [NoCall EXCEPT
                              !.op = "paste", !.obj = o,
                              !.types = clipTypes, !.selfTypes = ownTypes,
                              !.asked = asked, !.got = data,
                              !.echo = /\ last.op = "copy"
                                       /\ last.obj = o
                                       /\ last.put.called
                                       /\ data = Bytes(last.put.data),
                              !.ret = _paste_value(self, data)]
    /\ UNCHANGED <<inp, reg, platform, USE_SDL3, allow, outcome, pc, _clipboards,
                   _cutbuffers, Clipboard, CutBuffer, sel, log>>

---------------------------------------------------------------------------
(* The module level code of kivy.core.clipboard *)

\* lines 112-138: build the platform's candidate list
BuildClipboards ==
    /\ pc = "load"
    /\ _clipboards' = ClipboardCandidates
    /\ pc' = "select_clipboard"
    /\ UNCHANGED <<inp, reg, platform, USE_SDL3, allow, outcome, _cutbuffers, Clipboard,
                   CutBuffer, sel, objs, log, last>>

\* line 140: the call of the selector
SelectClipboard ==
    /\ pc = "select_clipboard"
    /\ sel' = core_select_lib("clipboard", _clipboards, create_instance)
    /\ pc' = "await_clipboard"
    /\ UNCHANGED <<inp, reg, platform, USE_SDL3, allow, outcome, _clipboards, _cutbuffers,
                   Clipboard, CutBuffer, objs, log, last>>

\* lines 140-141: the selector's result becomes Clipboard, CutBuffer = None;
\* an error of the selector ends the module's load
AssignClipboard ==
    /\ pc = "await_clipboard"
    /\ sel.state \in {"returned", "raised"}
    /\ IF sel.state = "returned"
       THEN /\ Clipboard' = sel.result
            /\ pc' = "cutbuffer"
       ELSE /\ Clipboard' = Clipboard
            /\ pc' = "crashed"
    /\ CutBuffer' = None
    /\ UNCHANGED <<inp, reg, platform, USE_SDL3, allow, outcome, _clipboards, _cutbuffers,
                   sel, objs, log, last>>

\* a load that selects the cut buffer without looking at the clipboard's class
SelectCutBufferAlways ==
    /\ pc = "cutbuffer"
    /\ IF platform = "linux"
       THEN /\ _cutbuffers' = CutBufferCandidates
            /\ sel' = core_select_lib("cutbuffer", CutBufferCandidates,
                                      create_instance)
            /\ pc' = "await_cutbuffer"
            /\ CutBuffer' = CutBuffer
       ELSE /\ pc' = "done"
            /\ UNCHANGED <<_cutbuffers, CutBuffer, sel>>
    /\ UNCHANGED <<inp, reg, platform, USE_SDL3, allow, outcome, _clipboards,
                   Clipboard, objs, log, last>>

\* lines 143-153: on linux the cut buffer is the clipboard itself when that is
\* xclip or xsel, else the result of a selection of its own
SelectCutBuffer ==
    /\ pc = "cutbuffer"
    /\ IF platform = "linux"
       THEN /\ _cutbuffers' = CutBufferCandidates
            /\ IF objs[Clipboard].cls \in
                    {CutBufferCandidates[i].cls : i \in DOMAIN CutBufferCandidates}
               THEN /\ CutBuffer' = Clipboard
                    /\ pc' = "cutbuffer_log"
                    /\ sel' = sel
               ELSE /\ sel' = core_select_lib("cutbuffer", CutBufferCandidates,
                                              create_instance)
                    /\ pc' = "await_cutbuffer"
                    /\ CutBuffer' = CutBuffer
       ELSE /\ pc' = "done"
            /\ UNCHANGED <<_cutbuffers, CutBuffer, sel>>
    /\ UNCHANGED <<inp, reg, platform, USE_SDL3, allow, outcome, _clipboards, Clipboard,
                   objs, log, last>>

\* lines 152-153: the selector's result becomes CutBuffer
AssignCutBuffer ==
    /\ pc = "await_cutbuffer"
    /\ sel.state \in {"returned", "raised"}
    /\ IF sel.state = "returned"
       THEN /\ CutBuffer' = sel.result
            /\ pc' = "cutbuffer_log"
       ELSE /\ CutBuffer' = CutBuffer
            /\ pc' = "crashed"
    /\ UNCHANGED <<inp, reg, platform, USE_SDL3, allow, outcome, _clipboards, _cutbuffers,
                   Clipboard, sel, objs, log, last>>

\* lines 155-156
LogCutBuffer ==
    /\ pc = "cutbuffer_log"
    /\ log' = IF CutBuffer # None
              THEN log \cup {[level |-> "info", what |-> "CutBuffer",
                              cat |-> "cutbuffer", name |-> ""]}
              ELSE log
    /\ pc' = "done"
    /\ UNCHANGED <<inp, reg, platform, USE_SDL3, allow, outcome, _clipboards, _cutbuffers,
                   Clipboard, CutBuffer, sel, objs, last>>

---------------------------------------------------------------------------
(* kivy.input.providers: the imports made while the module loads *)

InputProviders ==
    {"tuio", "mouse", "wm_touch", "wm_pen", "mactouch", "probesysfs", "mtdev",
     "hidinput", "linuxwacom", "androidjoystick", "leapfinger"}

\* a load whose linux providers are imported under one try
InputBlocksOneTry ==
    << [imports |-> <<"tuio", "mouse">>, plat |-> "any", guarded |-> FALSE,
        level |-> "none"],
       [imports |-> <<"wm_touch", "wm_pen">>, plat |-> "win", guarded |-> TRUE,
        level |-> "warning"],
       [imports |-> <<"mactouch">>, plat |-> "macosx", guarded |-> TRUE,
        level |-> "exception"],
       [imports |-> <<"probesysfs", "mtdev", "hidinput", "linuxwacom">>,
        plat |-> "linux", guarded |-> TRUE, level |-> "exception"],
       [imports |-> <<"androidjoystick">>, plat |-> "android", guarded |-> TRUE,
        level |-> "exception"],
       [imports |-> <<"leapfinger">>, plat |-> "any", guarded |-> TRUE,
        level |-> "exception"] >>

\* a load that imports leapfinger as it imports tuio and mouse, outside a try
InputBlocksLeapUnguarded ==
    << [imports |-> <<"tuio", "mouse">>, plat |-> "any", guarded |-> FALSE,
        level |-> "none"],
       [imports |-> <<"wm_touch", "wm_pen">>, plat |-> "win", guarded |-> TRUE,
        level |-> "warning"],
       [imports |-> <<"mactouch">>, plat |-> "macosx", guarded |-> TRUE,
        level |-> "exception"],
       [imports |-> <<"probesysfs">>, plat |-> "linux", guarded |-> TRUE,
        level |-> "exception"],
       [imports |-> <<"mtdev">>, plat |-> "linux", guarded |-> TRUE,
        level |-> "exception"],
       [imports |-> <<"hidinput">>, plat |-> "linux", guarded |-> TRUE,
        level |-> "exception"],
       [imports |-> <<"linuxwacom">>, plat |-> "linux", guarded |-> TRUE,
        level |-> "exception"],
       [imports |-> <<"androidjoystick">>, plat |-> "android", guarded |-> TRUE,
        level |-> "exception"],
       [imports |-> <<"leapfinger">>, plat |-> "any", guarded |-> FALSE,
        level |-> "none"] >>

\* the statements of the module in their order. Each is the imports it makes,
\* one after the other, the platform its condition names ("any" when it stands
\* under no condition), whether a try with "except Exception" encloses the
\* imports, and the Logger call of that handler
InputBlocks ==
    << [imports |-> <<"tuio", "mouse">>, plat |-> "any", guarded |-> FALSE,
        level |-> "none"],
       [imports |-> <<"wm_touch", "wm_pen">>, plat |-> "win", guarded |-> TRUE,
        level |-> "warning"],
       [imports |-> <<"mactouch">>, plat |-> "macosx", guarded |-> TRUE,
        level |-> "exception"],
       [imports |-> <<"probesysfs">>, plat |-> "linux", guarded |-> TRUE,
        level |-> "exception"],
       [imports |-> <<"mtdev">>, plat |-> "linux", guarded |-> TRUE,
        level |-> "exception"],
       [imports |-> <<"hidinput">>, plat |-> "linux", guarded |-> TRUE,
        level |-> "exception"],
       [imports |-> <<"linuxwacom">>, plat |-> "linux", guarded |-> TRUE,
        level |-> "exception"],
       [imports |-> <<"androidjoystick">>, plat |-> "android", guarded |-> TRUE,
        level |-> "exception"],
       [imports |-> <<"leapfinger">>, plat |-> "any", guarded |-> TRUE,
        level |-> "exception"] >>

\* the module before its first statement; doc is 'KIVY_DOC' in os.environ
InpStart(doc) ==
    [KIVY_DOC |-> doc, at |-> 1, state |-> "loading",
     tried |-> [n \in InputProviders |-> "untried"], log |-> {}]

\* the conditions of the if statements
Taken(b) ==
    \/ b.plat = "any"
    \/ inp.KIVY_DOC
    \/ platform = b.plat /\ (b.plat = "android" => ~USE_SDL3)

\* the imports of one statement when the first k of them succeed: the one
\* after them fails, and those after the failure are not reached
Imported(tried, imports, k) ==
    [n \in InputProviders |->
        IF \E i \in 1..Len(imports) : imports[i] = n /\ i <= k THEN "ok"
        ELSE IF k < Len(imports) /\ imports[k + 1] = n THEN "fail"
        ELSE tried[n]]

\* an if statement whose condition is false
SkipBlock ==
    /\ inp.state = "loading"
    /\ ~Taken(InputBlocks[inp.at])
    /\ inp' = [inp EXCEPT !.at = @ + 1,
                          !.state = IF inp.at + 1 > Len(InputBlocks)
                                    THEN "done" ELSE "loading"]
    /\ UNCHANGED <<reg, platform, USE_SDL3, allow, outcome, pc, _clipboards,
                   _cutbuffers, Clipboard, CutBuffer, sel, objs, log, last>>

\* the imports of one statement. A failure inside a try is logged by the
\* handler and the load goes on with the next statement; a failure outside
\* a try ends the load with the exception
ImportBlock ==
    /\ inp.state = "loading"
    /\ Taken(InputBlocks[inp.at])
    /\ \E k \in 0..Len(InputBlocks[inp.at].imports) :
        LET b == InputBlocks[inp.at]
            failed == k < Len(b.imports)
            tried == Imported(inp.tried, b.imports, k)
        IN  \/ /\ failed
               /\ ~b.guarded
               /\ inp' = [inp EXCEPT !.tried = tried, !.state = "raised"]
            \/ /\ failed => b.guarded
               /\ inp' = [inp EXCEPT
                     !.tried = tried,
                     !.at = @ + 1,
                     !.state = IF inp.at + 1 > Len(InputBlocks)
                               THEN "done" ELSE "loading",
                     !.log = IF failed
                             THEN @ \cup {[level |-> b.level,
                                           block |-> b.imports]}
                             ELSE @]
    /\ UNCHANGED <<reg, platform, USE_SDL3, allow, outcome, pc, _clipboards,
                   _cutbuffers, Clipboard, CutBuffer, sel, objs, log, last>>

---------------------------------------------------------------------------
(* The provider registry: kivy.core.PROVIDER_CONFIGS, its accessors and    *)
(* the conformance tests of src/kivy/tests/test_provider_registry.py.      *)
(* The table and the accessors are in kivy/core/__init__.py, which is not  *)
(* part of the sources at hand: their model follows section 4.2 of the     *)
(* specification; the tests are translated from their code.                *)

Categories ==
    {"window", "text", "video", "audio_output", "image", "camera", "spelling",
     "clipboard"}

\* A module identifier is the sequence of its parts between underscores, so
\* that "audio_sdl3" is <<"audio", "sdl3">>. A prefix is a word followed by
\* an underscore and is written as the word
expected_patterns ==
    [window |-> "window", text |-> "text", video |-> "video",
     audio_output |-> "audio", image |-> "img", camera |-> "camera",
     spelling |-> "spelling", clipboard |-> "clipboard"]

\* module_name.startswith(prefix) for a prefix that is word + "_"
startswith(module_name, word) ==
    Len(module_name) >= 2 /\ module_name[1] = word

Provider(name, module) == [name |-> name, module |-> module]

\* a registry as section 4.2 describes it, with the entries the sources name
BaseRegistry ==
    [window |-> <<Provider("sdl3", <<"window", "sdl3">>),
                  Provider("x11", <<"window", "x11">>)>>,
     text |-> <<Provider("pil", <<"text", "pil">>)>>,
     video |-> <<Provider("ffpyplayer", <<"video", "ffpyplayer">>)>>,
     audio_output |-> <<Provider("ffpyplayer", <<"audio", "ffpyplayer">>),
                        Provider("sdl3", <<"audio", "sdl3">>)>>,
     image |-> <<Provider("pil", <<"img", "pil">>),
                 Provider("imageio", <<"img", "imageio">>)>>,
     camera |-> <<Provider("opencv", <<"camera", "opencv">>),
                  Provider("avfoundation", <<"camera", "avfoundation">>)>>,
     spelling |-> <<Provider("enchant", <<"spelling", "enchant">>)>>,
     clipboard |-> <<Provider("xclip", <<"clipboard", "xclip">>),
                     Provider("dummy", <<"clipboard", "dummy">>)>>]

\* other ways a category could have been written: with no entry, with one
\* entry, with a second entry repeating the name or the module of the first,
\* with a second entry whose module is named after the category itself, or
\* has no underscore
Variants(category) ==
    LET e == BaseRegistry[category][1]
    IN  { << >>,
          <<e>>,
          <<e, Provider(e.name, <<e.module[1], "other">>)>>,
          <<e, Provider("other", e.module)>>,
          <<e, Provider("other", <<category, "other">>)>>,
          <<e, Provider("other", <<"other">>)>> }

\* the tables the tests are run against
SourceTables ==
    {BaseRegistry} \cup
    UNION {{[BaseRegistry EXCEPT ![c] = v] : v \in Variants(c)} :
               c \in Categories}

\* test_registry_categories_not_empty
test_registry_categories_not_empty(configs) ==
    \A category \in DOMAIN configs : Len(configs[category]) > 0

\* test_no_duplicate_provider_names_within_category:
\* len(names) == len(set(names))
test_no_duplicate_provider_names_within_category(configs) ==
    \A category \in DOMAIN configs :
        LET names == [i \in 1..Len(configs[category]) |->
                          configs[category][i].name]
        IN  Len(names) = Cardinality(Range(names))

\* a test of the modules that looks at the names
test_no_duplicate_module_names_by_name(configs) ==
    test_no_duplicate_provider_names_within_category(configs)

\* test_no_duplicate_module_names_within_category
test_no_duplicate_module_names_within_category(configs) ==
    \A category \in DOMAIN configs :
        LET modules == [i \in 1..Len(configs[category]) |->
                            configs[category][i].module]
        IN  Len(modules) = Cardinality(Range(modules))

\* a test of the convention that looks at the first entry of a category only
test_module_names_first_only(configs) ==
    \A category \in DOMAIN configs :
        Len(configs[category]) > 0 =>
            startswith(configs[category][1].module,
                       expected_patterns[category])

\* test_module_names_follow_convention
test_module_names_follow_convention(configs) ==
    \A category \in DOMAIN configs :
        \A i \in 1..Len(configs[category]) :
            startswith(configs[category][i].module,
                       expected_patterns[category])

\* d[key] = value on a dict kept as the sequence of its items in insertion
\* order: an existing key keeps its place
SetItem(d, key, value) ==
    IF \E i \in 1..Len(d) : d[i].name = key
    THEN [i \in 1..Len(d) |->
              IF d[i].name = key THEN Provider(key, value) ELSE d[i]]
    ELSE Append(d, Provider(key, value))

\* del d[key]
DelItem(d, key) == SelectSeq(d, LAMBDA e : e.name # key)

\* dict(providers) of a list of (name, module) pairs
RECURSIVE dict(_)
dict(providers) ==
    IF providers = << >> THEN << >>
    ELSE LET e == Last(providers)
         IN  SetItem(dict(SubSeq(providers, 1, Len(providers) - 1)),
                     e.name, e.module)

NoDict == [of |-> "", items |-> << >>, live |-> FALSE]

NoAccess == [fn |-> "none", category |-> "", result |-> << >>, after |-> FALSE]

\* an accessor that hands out the registry's own structure
get_provider_modules_live(configs, category) ==
    [of |-> category, items |-> dict(configs[category]), live |-> TRUE]

\* moduleMap: a mapping of its own; live says whether writes to the mapping
\* reach the registry
get_provider_modules(configs, category) ==
    [of |-> category, items |-> dict(configs[category]), live |-> FALSE]

\* listProviders: the names in priority order
get_provider_options(configs, category) ==
    [i \in 1..Len(configs[category]) |-> configs[category][i].name]

\* the registry as the file defines it, before anything has read it
RegStart(table) ==
    [state |-> "defined", source |-> table, PROVIDER_CONFIGS |-> table,
     handed |-> NoDict, dirty |-> FALSE, access |-> NoAccess]

RegIdle == RegStart(BaseRegistry)

RegUnchanged ==
    UNCHANGED <<inp, platform, USE_SDL3, allow, outcome, pc, _clipboards,
                _cutbuffers, Clipboard, CutBuffer, sel, objs, log, last>>

\* the tests of the table: a table that fails one is not the registry of a
\* repository whose tests pass
RunRegistryTests ==
    /\ reg.state = "defined"
    /\ reg' = [reg EXCEPT !.state =
          IF /\ test_registry_categories_not_empty(reg.PROVIDER_CONFIGS)
             /\ test_no_duplicate_provider_names_within_category(
                    reg.PROVIDER_CONFIGS)
             /\ test_no_duplicate_module_names_within_category(
                    reg.PROVIDER_CONFIGS)
             /\ test_module_names_follow_convention(reg.PROVIDER_CONFIGS)
          THEN "accepted" ELSE "rejected"]
    /\ RegUnchanged

\* result = get_provider_modules(category)
GetProviderModules ==
    /\ reg.state = "accepted"
    /\ \E category \in Categories :
        LET result == get_provider_modules(reg.PROVIDER_CONFIGS, category)
        IN  reg' = [reg EXCEPT
                !.handed = result,
                !.access = [fn |-> "get_provider_modules",
                            category |-> category, result |-> result.items,
                            after |-> reg.dirty]]
    /\ RegUnchanged

\* get_provider_options(category)
GetProviderOptions ==
    /\ reg.state = "accepted"
    /\ \E category \in Categories :
        reg' = [reg EXCEPT
            !.access = [fn |-> "get_provider_options", category |-> category,
                        result |-> get_provider_options(reg.PROVIDER_CONFIGS,
                                                        category),
                        after |-> reg.dirty]]
    /\ RegUnchanged

\* what a write to the handed mapping does to the registry
Written(items) ==
    IF reg.handed.live
    THEN [reg.PROVIDER_CONFIGS EXCEPT ![reg.handed.of] = items]
    ELSE reg.PROVIDER_CONFIGS

\* the caller changes the mapping it was handed: result['test'] =
\* 'test_module', an overwrite of an existing key, or a deletion
MutateResult ==
    /\ reg.handed # NoDict
    /\ \E key \in {e.name : e \in Range(reg.handed.items)} \cup {"test"} :
        \E items \in {SetItem(reg.handed.items, key, <<"test", "module">>),
                      DelItem(reg.handed.items, key)} :
            /\ items # reg.handed.items
            /\ reg' = [reg EXCEPT !.handed.items = items,
                                  !.dirty = TRUE,
                                  !.PROVIDER_CONFIGS = Written(items)]
    /\ RegUnchanged

---------------------------------------------------------------------------
(* Specifications *)

Init ==
    /\ platform \in Platforms
    /\ USE_SDL3 \in BOOLEAN
    /\ allow \in AllowLists
    /\ outcome = [n \in NameSet |-> "untried"]
    /\ pc = "load"
    /\ _clipboards = << >>
    /\ _cutbuffers = << >>
    /\ Clipboard = None
    /\ CutBuffer = None
    /\ sel = Idle
    /\ objs = << >>
    /\ log = {}
    /\ last = NoCall
    /\ inp = InpStart(FALSE)
    /\ reg = RegIdle

NextLoad ==
    \/ BuildClipboards
    \/ SelectClipboard
    \/ SelectTry
    \/ SelectFinish
    \/ AssignClipboard
    \/ SelectCutBuffer
    \/ AssignCutBuffer
    \/ LogCutBuffer

\* the load of kivy.core.clipboard under every configuration
Spec == Init /\ [][NextLoad]_vars

\* the allow-lists of the configurations whose use of the clipboard is followed
UseAllowLists == {NoAllow, [given |-> TRUE, names |-> <<"gtk3">>]}

\* the calls of copy and paste depend on the load only through the platform
\* and through which instances Clipboard and CutBuffer are: the allow-list is
\* what makes CutBuffer an instance of its own, which only linux has
InitUse ==
    /\ Init
    /\ ~USE_SDL3
    /\ allow \in UseAllowLists
    /\ allow.given => platform = "linux"

Next ==
    \/ NextLoad
    \/ Copy
    \/ Paste

\* the load of kivy.core.clipboard followed by any calls of copy and paste
SpecUse == InitUse /\ [][Next]_vars

\* the variables of kivy.core.clipboard before the module is loaded
ClipboardIdle ==
    /\ allow = NoAllow
    /\ outcome = [n \in NameSet |-> "untried"]
    /\ pc = "load"
    /\ _clipboards = << >>
    /\ _cutbuffers = << >>
    /\ Clipboard = None
    /\ CutBuffer = None
    /\ sel = Idle
    /\ objs = << >>
    /\ log = {}
    /\ last = NoCall

InitProviders ==
    /\ platform \in Platforms
    /\ USE_SDL3 \in BOOLEAN
    /\ ClipboardIdle
    /\ inp \in {InpStart(doc) : doc \in BOOLEAN}
    /\ reg = RegIdle

NextProviders ==
    \/ SkipBlock
    \/ ImportBlock

\* the load of kivy.input.providers: the interpreter runs the statements of
\* the module one after the other until the last one or until an exception
SpecProviders ==
    InitProviders /\ [][NextProviders]_vars /\ WF_vars(NextProviders)

InitRegistry ==
    /\ platform = "linux"
    /\ USE_SDL3 = FALSE
    /\ ClipboardIdle
    /\ inp = InpStart(FALSE)
    /\ reg \in {RegStart(table) : table \in SourceTables}

NextRegistry ==
    \/ RunRegistryTests
    \/ GetProviderModules
    \/ GetProviderOptions
    \/ MutateResult

\* the registry, the tests of its table and any use of its accessors
SpecRegistry == InitRegistry /\ [][NextRegistry]_vars

---------------------------------------------------------------------------
(* Provider selection: C1 - C4 *)

\* the position of a name in a sequence without duplicates (0 when absent)
Pos(s, n) == IF \E i \in DOMAIN s : s[i] = n
             THEN CHOOSE i \in DOMAIN s : s[i] = n
             ELSE 0

Finished == sel.state \in {"returned", "raised"}

\* C1: every selection the clipboard module runs is a single-instance one; its
\* attempts are a prefix of the candidate list, in list order (the list itself
\* when no allow-list is configured); every attempt before the last one
\* failed; and when a candidate wins, the selection returns the instance built
\* from it, which is the only instance the selection constructed, and the
\* attempts end with it.
C1_FirstSuccessWins ==
    sel.state # "idle" =>
        /\ sel.force
        /\ ~sel.given => sel.order = sel.cands
        /\ Len(sel.attempted) <= Len(sel.order)
        /\ \A i \in DOMAIN sel.attempted : sel.attempted[i] = sel.order[i].name
        /\ \A i \in DOMAIN sel.attempted :
                i < Len(sel.attempted) => outcome[sel.attempted[i]] = "fail"
        /\ Len(sel.built) <= 1
        /\ (sel.built # << >>) =>
                /\ outcome[Last(sel.attempted)] = "ok"
                /\ objs[sel.built[1]].cls = sel.order[Len(sel.attempted)].cls
        /\ (sel.state = "returned" /\ ~sel.fellBack) =>
                /\ sel.built = <<sel.result>>
                /\ sel.result = Len(objs)
        /\ (sel.cat = "clipboard" /\ Finished) => Len(objs) <= 1

\* C1 witness: two candidates failed, the third won, no allow-list involved
C1_Witness ==
    /\ sel.state = "returned"
    /\ ~sel.fellBack
    /\ ~sel.given
    /\ Len(sel.attempted) = 3
    /\ Len(sel.order) > 3
    /\ objs[sel.result].cls = sel.cands[3].cls

Allowed == SelectSeq(allow.names, LAMBDA n : n \in Range(Names(sel.cands)))

\* C3: under an allow-list the selector iterates exactly the candidates the
\* allow-list names, in allow-list order: its attempts are a prefix of that
\* sequence (the whole of it when none succeeds) and no other candidate is
\* attempted.
C3_AllowListOrder ==
    (sel.state # "idle" /\ sel.given) =>
        /\ Names(sel.order) = Allowed
        /\ Len(sel.attempted) <= Len(Allowed)
        /\ \A i \in DOMAIN sel.attempted : sel.attempted[i] = Allowed[i]
        /\ \A i \in DOMAIN sel.attempted : sel.attempted[i] \in Range(allow.names)
        /\ \A i, j \in DOMAIN sel.attempted :
                i < j => Pos(allow.names, sel.attempted[i])
                            < Pos(allow.names, sel.attempted[j])
        /\ (Finished /\ sel.built = << >>) => sel.attempted = Allowed

\* C3 witness: two candidates were attempted in allow-list order, which is the
\* reverse of their order in the candidate list
C3_Witness ==
    /\ sel.given
    /\ Len(sel.attempted) = 2
    /\ Pos(Names(sel.cands), sel.attempted[1])
            > Pos(Names(sel.cands), sel.attempted[2])
    /\ Len(sel.cands) > Len(sel.order)

PastClipboard == pc \in {"cutbuffer", "await_cutbuffer", "cutbuffer_log", "done"}

\* C4: the candidate list handed to the clipboard selection ends with the
\* dummy; the load never fails in the clipboard selection; once that selection
\* is over Clipboard refers to an instance, and to the dummy when no other
\* candidate that was tried resolved.
C4_ClipboardNeverAbsent ==
    /\ pc # "load" =>
            /\ _clipboards # << >>
            /\ Last(_clipboards).name = "dummy"
    /\ PastClipboard =>
            /\ Clipboard # None
            /\ Clipboard \in DOMAIN objs
    /\ pc = "crashed" => (sel.cat = "cutbuffer" /\ Clipboard \in DOMAIN objs)
    /\ (pc = "cutbuffer"
            /\ \A i \in DOMAIN sel.attempted :
                    sel.attempted[i] # "dummy" => outcome[sel.attempted[i]] = "fail")
        => objs[Clipboard].cls = "ClipboardDummy"

\* C4 witness: on Windows with SDL3 both real backends failed and the load
\* ended with the dummy as Clipboard
C4_Witness ==
    /\ pc = "done"
    /\ platform = "win"
    /\ USE_SDL3
    /\ outcome["winctypes"] = "fail"
    /\ outcome["sdl3"] = "fail"
    /\ ~sel.given
    /\ objs[Clipboard].cls = "ClipboardDummy"

---------------------------------------------------------------------------
(* The clipboard base contract: C5 - C10 *)

\* C5 as claimed: a paste that gets back the bytes which the copy of a text
\* just before it put on the same instance returns that text, whatever the
\* text is.
C5_RoundTripAnyText ==
    [][(last'.op = "paste" /\ last'.echo /\ last.data.kind = "str")
            => last'.ret = Str(last.data.v)]_vars

\* C5 amended: a copy of a non-empty text puts bytes on the backend exactly
\* when the text holds no surrogate code point (else it raises), and a paste
\* that gets those bytes back right after it returns the text whenever the
\* text holds no null character.
C5_RoundTripNullFreeText ==
    [][/\ (last'.op = "copy" /\ last'.data.kind = "str" /\ last'.data.v # << >>)
            => /\ last'.put.called
                    = (\A i \in DOMAIN last'.data.v :
                            last'.data.v[i] < 55296 \/ last'.data.v[i] > 57343)
               /\ last'.raised = ~last'.put.called
       /\ (/\ last'.op = "paste"
           /\ last'.echo
           /\ last.data.kind = "str"
           /\ \A i \in DOMAIN last.data.v : last.data.v[i] # 0)
            => last'.ret = Str(last.data.v)]_vars

\* C5 witness: on Windows a two character text with a non-ASCII character
\* came back from a paste that got the bytes of the copy before it
C5_Witness ==
    /\ platform = "win"
    /\ last.op = "paste"
    /\ last.echo
    /\ last.got = Bytes(<<233, 0, 65, 0>>)
    /\ last.ret = Str(<<233, 65>>)

\* C6: a copy of None, of the empty string or of empty bytes puts nothing on
\* the backend, raises nothing and leaves every instance as it was, configured
\* or not.
C6_FalsyCopyIsNoOp ==
    [][(last'.op = "copy"
            /\ last'.data \in {NoData, Str(<< >>), Bytes(<< >>)})
        => /\ objs' = objs
           /\ ~last'.put.called
           /\ ~last'.raised]_vars

\* C6 witness: after a copy of the empty string the instance is still
\* unconfigured
C6_Witness ==
    /\ last.op = "copy"
    /\ last.data = Str(<< >>)
    /\ ~last.put.called
    /\ ~HasMimeType(objs[last.obj])

\* C7: a paste whose get returned None returns the empty string.
C7_PasteOfNothingIsEmpty ==
    (last.op = "paste" /\ last.got = NoData)
        => (last.ret = Str(<< >>) /\ ~last.raised)

\* C7 witness: a paste on the cut buffer got None and returned ''
C7_Witness ==
    /\ last.op = "paste"
    /\ last.got = NoData
    /\ last.ret = Str(<< >>)
    /\ last.obj = CutBuffer
    /\ CutBuffer # Clipboard

\* C8 as claimed: the MIME type a paste asks its get for is the cached type
\* when the get_types() of the instance the paste is called on holds it, and
\* text/plain otherwise.
C8_OwnTypesDecide ==
    last.op = "paste" =>
        last.asked = (IF objs[last.obj]._clip_mime_type \in last.selfTypes
                      THEN objs[last.obj]._clip_mime_type
                      ELSE "text/plain")

Configures(call, o) ==
    /\ call.obj = o
    /\ \/ call.op = "paste"
       \/ call.op = "copy" /\ call.data.kind # "none" /\ call.data.v # << >>

\* C9: an instance is constructed unconfigured; it becomes configured by, and
\* only by, a paste or a copy of non-empty data on it; and once configured its
\* cached MIME type and encoding never change again.
C9_ConfiguredOnceForGood ==
    [][\A o \in DOMAIN objs' :
        /\ o \notin DOMAIN objs =>
                /\ objs'[o]._clip_mime_type = "unset"
                /\ objs'[o]._encoding = "unset"
        /\ o \in DOMAIN objs =>
                /\ objs[o]._clip_mime_type # "unset" => objs'[o] = objs[o]
                /\ (objs[o]._clip_mime_type = "unset"
                        /\ objs'[o]._clip_mime_type # "unset")
                    => Configures(last', o)
        /\ Configures(last', o) =>
                /\ objs'[o]._clip_mime_type # "unset"
                /\ objs'[o]._encoding # "unset"]_vars

\* C9 witness: a paste on an instance that the copy before it had configured
C9_Witness ==
    /\ last.op = "paste"
    /\ last.echo
    /\ objs[last.obj]._clip_mime_type # "unset"
    /\ \E o \in DOMAIN objs : objs[o]._clip_mime_type = "unset"

\* C10 as claimed: a configured instance caches text/plain with utf-16-le on
\* Windows, text/plain;charset=utf-8 with utf-8 on linux and text/plain with
\* utf-8 on every other platform.
C10_PlatformConventions ==
    \A o \in DOMAIN objs :
        objs[o]._clip_mime_type # "unset" =>
            /\ objs[o]._clip_mime_type =
                    (IF platform = "linux" THEN "text/plain;charset=utf-8"
                     ELSE "text/plain")
            /\ objs[o]._encoding =
                    (IF platform = "win" THEN "utf-16-le" ELSE "utf-8")

---------------------------------------------------------------------------
(* Claims about the load of kivy.input.providers *)

\* the providers whose import no try encloses
CoreProviders == {"tuio", "mouse"}

CoreImported == \A n \in CoreProviders : inp.tried[n] = "ok"

\* C11, as stated: whichever imports fail, tuio and mouse among them, the
\* load of the input providers module never ends with an exception.
C11_LoadNeverRaises == inp.state # "raised"

\* C11, amended: the load ends with an exception only when the import of
\* tuio or of mouse failed; every failed import of another provider has left
\* one log entry of the statement it belongs to, and nothing else is logged.
C11_GuardedFailuresAreLogged ==
    /\ inp.state = "raised" => \E n \in CoreProviders : inp.tried[n] = "fail"
    /\ \A n \in InputProviders \ CoreProviders :
          inp.tried[n] = "fail" =>
              \E e \in inp.log : n \in Range(e.block) /\ e.level # "none"
    /\ \A e \in inp.log : \E n \in Range(e.block) : inp.tried[n] = "fail"
    /\ Cardinality(inp.log) =
          Cardinality({n \in InputProviders \ CoreProviders :
                           inp.tried[n] = "fail"})

\* a load on win that ran to its end although wm_touch and leapfinger failed
C11_Witness ==
    /\ inp.state = "done"
    /\ platform = "win"
    /\ inp.tried["wm_touch"] = "fail"
    /\ inp.tried["leapfinger"] = "fail"
    /\ Cardinality(inp.log) = 2

---------------------------------------------------------------------------
(* Claims about copy and paste, continued *)

\* C12, as stated: copy of data that is neither text nor bytes, an integer
\* for one, converts the data to a string and issues one put; the call does
\* not fail.
C12_NonTextIsConverted ==
    (last.op = "copy" /\ last.data.kind = "other" /\ Truthy(last.data)) =>
        ~last.raised /\ last.put.called

IsBytes(b) == \A i \in 1..Len(b) : b[i] \in 0..255

\* C16: what paste returns is a text string without any null character,
\* whatever get returned and whatever the platform's encoding; when get
\* returned bytes it is their decoding with the instance's cached encoding,
\* undecodable input dropped, less its null characters.
C16_PasteHasNoNull ==
    last.op = "paste" =>
        /\ last.ret.kind = "str"
        /\ \A i \in 1..Len(last.ret.v) : last.ret.v[i] # 0
        /\ last.got.kind = "bytes" =>
              /\ objs[last.obj]._encoding # Unset
              /\ last.ret.v =
                    SelectSeq(Decode(last.got.v, objs[last.obj]._encoding),
                              LAMBDA c : c \in 1..1114111)
        /\ last.got.kind = "str" =>
              last.ret.v = SelectSeq(last.got.v, LAMBDA c : c > 0)

\* on win, where the encoding is utf-16-le, get returned the four bytes of
\* "A" followed by a null character and paste returned "A": the zero byte
\* that belongs to "A" was decoded, the null character was removed
C16_Witness ==
    /\ last.op = "paste"
    /\ platform = "win"
    /\ last.got = Bytes(<<65, 0, 0, 0>>)
    /\ last.ret = Str(<<65>>)

\* C17, as stated for text and bytes: every copy of non-empty text or bytes
\* issues a put.
C17_EveryNonEmptyCopyPuts ==
    (last.op = "copy" /\ last.data.kind \in {"str", "bytes"}
        /\ Truthy(last.data)) => last.put.called

\* C17, amended: a put issued by copy carries bytes and the MIME type the
\* instance has cached; bytes are forwarded unchanged, text is put as bytes
\* that decode back to it under the cached encoding; every copy of non-empty
\* bytes or of non-empty text the encoding can encode issues its put, and a
\* copy of text with a lone surrogate raises and puts nothing.
C17_PutCarriesBytesAndCachedMime ==
    last.op = "copy" =>
        LET self == objs[last.obj] IN
        /\ last.put.called =>
              /\ Truthy(last.data)
              /\ ~last.raised
              /\ IsBytes(last.put.data)
              /\ self._clip_mime_type # Unset
              /\ last.put.mime = self._clip_mime_type
        /\ (last.data.kind = "bytes" /\ Truthy(last.data)) =>
              last.put.called /\ last.put.data = last.data.v
        /\ (last.data.kind = "str" /\ Truthy(last.data)
                /\ CanEncode(last.data.v)) =>
              /\ last.put.called
              /\ Decode(last.put.data, self._encoding) = last.data.v
              /\ self._encoding = "utf-16-le" =>
                    Len(last.put.data) = 2 * Len(last.data.v)
        /\ (last.data.kind = "str" /\ ~CanEncode(last.data.v)) =>
              last.raised /\ ~last.put.called

\* a copy of "\u00e9" on linux put its two UTF-8 bytes under the cached type
C17_Witness ==
    /\ last.op = "copy"
    /\ platform = "linux"
    /\ last.data = Str(<<233>>)
    /\ last.put = [called |-> TRUE, data |-> <<195, 169>>,
                   mime |-> TextPlainUTF8]

---------------------------------------------------------------------------
(* Claims about the cut buffer *)

CutBufferClasses == {"ClipboardXclip", "ClipboardXsel"}

\* the instances of xclip and xsel constructed so far
CutBufferInstances == {i \in DOMAIN objs : objs[i].cls \in CutBufferClasses}

\* C18: off linux CutBuffer stays None and no cut buffer selection is run.
\* On linux, once the clipboard is selected, CutBuffer is the instance that
\* Clipboard is exactly when that instance's class is ClipboardXclip or
\* ClipboardXsel, and then no second selection runs; otherwise one selection
\* over xclip, xsel in that order, constructing the winner only, is run and
\* its result is CutBuffer. At most one instance of xclip and xsel is ever
\* constructed.
C18_CutBufferAliasing ==
    /\ platform # "linux" =>
          /\ CutBuffer = None
          /\ _cutbuffers = << >>
          /\ sel.cat # "cutbuffer"
    /\ (platform = "linux" /\ pc \in {"cutbuffer_log", "done"}) =>
          /\ CutBuffer \in DOMAIN objs
          /\ CutBuffer = Clipboard <=> objs[Clipboard].cls \in CutBufferClasses
          /\ CutBuffer = Clipboard => sel.cat = "clipboard"
          /\ CutBuffer # Clipboard =>
                /\ sel.cat = "cutbuffer"
                /\ sel.state = "returned"
                /\ sel.result = CutBuffer
                /\ objs[CutBuffer].cls \in CutBufferClasses
    /\ sel.cat = "cutbuffer" =>
          /\ platform = "linux"
          /\ objs[Clipboard].cls \notin CutBufferClasses
          /\ Names(sel.cands) = <<"xclip", "xsel">>
          /\ Names(_cutbuffers) = <<"xclip", "xsel">>
          /\ sel.force
          /\ ~sel.given
    /\ Cardinality(CutBufferInstances) <= 1

\* on linux xclip failed, xsel won the clipboard selection and the load ended
\* with CutBuffer the same instance, the only one constructed
C18_Witness ==
    /\ platform = "linux"
    /\ pc = "done"
    /\ outcome["xclip"] = "fail"
    /\ objs[Clipboard].cls = "ClipboardXsel"
    /\ CutBuffer = Clipboard
    /\ Len(objs) = 1

---------------------------------------------------------------------------
(* Claims about the provider registry *)

\* the prefix the module identifiers of a category carry
PrefixOf(category) ==
    IF category = "audio_output" THEN "audio"
    ELSE IF category = "image" THEN "img"
    ELSE category

Accepted == reg.state = "accepted"

C15_AccessorsReturnCopies ==
    /\ reg.PROVIDER_CONFIGS = reg.source
    /\ reg.access.fn = "get_provider_modules" =>
          reg.access.result = dict(reg.source[reg.access.category])
    /\ reg.access.fn = "get_provider_options" =>
          /\ Len(reg.access.result) = Len(reg.source[reg.access.category])
          /\ \A i \in 1..Len(reg.access.result) :
                reg.access.result[i] = reg.source[reg.access.category][i].name

\* the mapping of window was handed out and changed by the caller: x11
\* deleted and 'test' inserted; a call of get_provider_modules('window')
\* made after that returned both original entries
C15_Witness ==
    /\ reg.dirty
    /\ reg.access.after
    /\ reg.access.fn = "get_provider_modules"
    /\ reg.access.category = "window"
    /\ Len(reg.access.result) = 2
    /\ reg.access.result[2] = Provider("x11", <<"window", "x11">>)

---------------------------------------------------------------------------
(* Claims about the load of kivy.input.providers, continued *)

\* the providers that apply to the platform of the process
ApplicableProviders ==
    (IF platform = "win" THEN {"wm_touch", "wm_pen"} ELSE {})
        \cup (IF platform = "macosx" THEN {"mactouch"} ELSE {})
        \cup (IF platform = "linux"
              THEN {"probesysfs", "mtdev", "hidinput", "linuxwacom"} ELSE {})
        \cup (IF platform = "android" /\ ~USE_SDL3
              THEN {"androidjoystick"} ELSE {})
        \cup {"leapfinger"}

Loaded == inp.state = "done"

\* C19, as stated: a load that has run to its end has attempted the import
\* of every provider that applies to the platform, whichever imports of
\* guarded providers failed.
C19_EveryApplicableAttempted ==
    Loaded => \A n \in ApplicableProviders : inp.tried[n] # "untried"

\* C19, amended: once tuio and mouse are imported the load runs to its end,
\* and at its end the import of every provider that applies to the platform
\* has been attempted, whichever imports of guarded providers failed, but
\* for wm_pen, which is not attempted when the import of wm_touch failed.
C19_AttemptedButPenAfterTouch ==
    /\ [](Loaded =>
            \A n \in ApplicableProviders :
                \/ inp.tried[n] # "untried"
                \/ n = "wm_pen" /\ inp.tried["wm_touch"] = "fail")
    /\ (CoreImported ~> Loaded)

\* a load on linux that ran to its end: probesysfs and hidinput failed, and
\* mtdev, linuxwacom and leapfinger were imported after those failures
C19_Witness ==
    /\ Loaded
    /\ platform = "linux"
    /\ inp.tried["probesysfs"] = "fail"
    /\ inp.tried["mtdev"] = "ok"
    /\ inp.tried["hidinput"] = "fail"
    /\ inp.tried["linuxwacom"] = "ok"
    /\ inp.tried["leapfinger"] = "ok"

====
